---------------------------- MODULE Spec2Model ----------------------------
(***************************************************************************)
(* Model of generateTfvars.py: the cell grammar (getCidrArray,             *)
(* getRulesArray, getTags), the intermediate serializer                    *)
(* (generateIntermediateFiles), the line reformatter                       *)
(* (generateFinalTfvarsFile), the instance row assembler and the           *)
(* orchestrator loop.                                                      *)
(*                                                                         *)
(* A Python str is a sequence of one-character strings.  A Python dict is  *)
(* a sequence of entries [k, v] in insertion order.  A Python value is a   *)
(* record [t, s, xs, b] with t in {"str", "list", "dict", "bool"}.          *)
(***************************************************************************)
EXTENDS Integers, Sequences, FiniteSets, TLC

VARIABLES
    \* one cell handed to a parser
    src,      \* the structure the cell under test was encoded from
    cell,     \* row[header]: the raw cell string handed to the parser
    op,       \* which parser ran last: "none", "cidr", "rules", "tags"
    result,   \* what it returned
    \* one sheet taken through an assembler and both file writers
    sheet_name,      \* the sheet's name
    rows,            \* its data rows, each a sequence of cells
    resource,        \* the mapping the assembler builds (vcns, subnets, ...)
    tfvars_content,  \* the text of the intermediate .tfvars file
    output_lines,    \* the lines of the final .tfvars file
    fpc,             \* "start", "scanned", "intermediate", "final"
    \* the whole run: the loop over workbook.sheetnames
    sheetnames,      \* workbook.sheetnames, in the workbook's order
    nrows,           \* the number of data rows of each sheet
    idx,             \* the position of the for loop in sheetnames
    rowi,            \* data rows of the current sheet scanned so far
    pc,              \* where the run stands
    open_file,       \* the file open in a with block, or NoFile
    written,         \* the files written and closed so far, in order
    notes,           \* the sheets reported as having no function
    boolean_value,   \* the local of processInstances: "unbound", "True", "False"
    stored,          \* the two boolean fields of the record stored last
    last_row,        \* the two boolean cells of the row scanned last
    last_coerced     \* per boolean field, what its last valid cell coerced to

parseVars == <<src, cell, op, result>>
fmtVars == <<sheet_name, rows, resource, tfvars_content, output_lines, fpc>>
runVars == <<sheetnames, nrows, idx, rowi, pc, open_file, written, notes,
             boolean_value, stored, last_row, last_coerced>>
vars == <<parseVars, fmtVars, runVars>>

-----------------------------------------------------------------------------
(* Python values *)

Str(s) == [t |-> "str", s |-> s, xs |-> <<>>, b |-> FALSE]
List(xs) == [t |-> "list", s |-> <<>>, xs |-> xs, b |-> FALSE]
Dict(es) == [t |-> "dict", s |-> <<>>, xs |-> es, b |-> FALSE]
Bool(b) == [t |-> "bool", s |-> <<>>, xs |-> <<>>, b |-> b]
Entry(k, v) == [k |-> k, v |-> v]

\* d[k] = v on a dict: the value of an existing key is replaced in place,
\* a new key is appended (insertion order).
DictSet(es, k, v) ==
    IF \E i \in 1..Len(es) : es[i].k = k
    THEN [i \in 1..Len(es) |-> IF es[i].k = k THEN Entry(k, v) ELSE es[i]]
    ELSE Append(es, Entry(k, v))

DictHas(es, k) == \E i \in 1..Len(es) : es[i].k = k

DictGet(es, k) == es[CHOOSE i \in 1..Len(es) : es[i].k = k].v

-----------------------------------------------------------------------------
(* Python str operations *)

\* str.find(sub): the least 1-based index where sub occurs in s, 0 if none.
Find(s, sub) ==
    LET hits == {i \in 1..(Len(s) - Len(sub) + 1) :
                    SubSeq(s, i, i + Len(sub) - 1) = sub}
    IN IF hits = {} THEN 0 ELSE CHOOSE i \in hits : \A j \in hits : i <= j

\* sub in s
Contains(s, sub) == Find(s, sub) # 0

\* str.split(sep) with no maxsplit: every occurrence of sep separates.
RECURSIVE Split(_, _)
Split(s, sep) ==
    LET i == Find(s, sep)
    IN IF i = 0 THEN <<s>>
       ELSE <<SubSeq(s, 1, i - 1)>> \o Split(SubSeq(s, i + Len(sep), Len(s)), sep)

\* sep.join(parts)
RECURSIVE Join(_, _)
Join(parts, sep) ==
    IF Len(parts) = 0 THEN <<>>
    ELSE IF Len(parts) = 1 THEN parts[1]
    ELSE parts[1] \o sep \o Join(Tail(parts), sep)

-----------------------------------------------------------------------------
(* The cell grammar *)

COMMA == <<",">>
SEMI == <<";">>
EQ == <<"=">>
DCOLON == <<":", ":">>
DBAR == <<"|", "|">>
ANGLE == <<"<", ">">>
QUOTE == <<"\"">>
OPTIONS == <<"o", "p", "t", "i", "o", "n", "s">>

\* the item left as it is
QuoteItemBare(item) == item

\* f'"{cidr_item}"'
QuoteItem(item) == QUOTE \o item \o QUOTE

\* getCidrArray: split on ',' and quote every item.  No statement of the
\* loop raises ValueError, so the except branch is never taken.
getCidrArray(c) ==
    LET cidr_items == Split(c, COMMA)
    IN List([i \in 1..Len(cidr_items) |-> Str(QuoteItem(cidr_items[i]))])

\* the same with maxsplit = 1: split on the first '=' only
SplitPairFirst(pair) ==
    LET i == Find(pair, EQ)
    IN IF i = 0 THEN <<pair>>
       ELSE <<SubSeq(pair, 1, i - 1), SubSeq(pair, i + 1, Len(pair))>>

\* getRulesArray: key, value = pair.split("=")
SplitRulePair(pair) == Split(pair, EQ)

\* getTags: key, value = pair.split("=")
SplitTagPair(pair) == Split(pair, EQ)

\* 'a, b = parts' raises ValueError unless parts has exactly two elements.
UnpackFails(parts) == Len(parts) # 2

\* for option in options: optionKey, optionVal = option.split("<>") ...
RECURSIVE OptionLoop(_, _, _)
OptionLoop(options, i, option_rule) ==
    IF i > Len(options) THEN [err |-> FALSE, d |-> option_rule]
    ELSE LET parts == Split(options[i], ANGLE)
         IN IF UnpackFails(parts) THEN [err |-> TRUE, d |-> option_rule]
            ELSE OptionLoop(options, i + 1,
                            DictSet(option_rule, parts[1], Str(parts[2])))

\* the guard of the option loop without its '||' test
HasOptionListNonEmpty(options_key_pairs) == options_key_pairs # <<>>

\* if options_key_pairs != '' and '||' in options_key_pairs
HasOptionList(options_key_pairs) ==
    options_key_pairs # <<>> /\ Contains(options_key_pairs, DBAR)

\* for pair in route_rules_key_pairs: ...   options_array is the list
\* created once per rule item and shared by every 'options' pair of it.
RECURSIVE PairLoop(_, _, _, _)
PairLoop(pairs, i, route_rule, options_array) ==
    IF i > Len(pairs) THEN [err |-> FALSE, rule |-> route_rule]
    ELSE
      LET kv == SplitRulePair(pairs[i])
      IN IF UnpackFails(kv) THEN [err |-> TRUE, rule |-> route_rule]
         ELSE IF kv[1] # OPTIONS
         THEN PairLoop(pairs, i + 1, DictSet(route_rule, kv[1], Str(kv[2])),
                       options_array)
         ELSE
           LET pv == Split(kv[2], DCOLON)
           IN IF UnpackFails(pv) THEN [err |-> TRUE, rule |-> route_rule]
              ELSE
                LET protocol == pv[1]
                    options_key_pairs == pv[2]
                IN IF HasOptionList(options_key_pairs)
                   THEN LET r == OptionLoop(Split(options_key_pairs, DBAR), 1, <<>>)
                            appended == Append(options_array, Dict(r.d))
                        IN IF r.err THEN [err |-> TRUE, rule |-> route_rule]
                           ELSE PairLoop(pairs, i + 1,
                                    DictSet(route_rule, kv[1],
                                        Dict(<<Entry(protocol, List(appended))>>)),
                                    appended)
                   ELSE PairLoop(pairs, i + 1,
                            DictSet(route_rule, kv[1],
                                Dict(<<Entry(protocol, List(options_array))>>)),
                            options_array)

\* The list returned when ValueError ends the loop early:
\* 'except ValueError: pass' followed by 'return route_rules_array'.
RulesBlanked(route_rules_array) == <<>>

RulesOnValueError(route_rules_array) == route_rules_array

\* for route_rules_item in route_rules_items: ...
RECURSIVE ItemLoop(_, _, _)
ItemLoop(items, i, route_rules_array) ==
    IF i > Len(items) THEN route_rules_array
    ELSE LET r == PairLoop(Split(items[i], SEMI), 1, <<>>, <<>>)
         IN IF r.err THEN RulesOnValueError(route_rules_array)
            ELSE ItemLoop(items, i + 1, Append(route_rules_array, Dict(r.rule)))

getRulesArray(c) == List(ItemLoop(Split(c, COMMA), 1, <<>>))

\* The dict returned when ValueError ends the loop early.
TagsBlanked(tags) == <<>>

TagsOnValueError(tags) == tags

\* for pair in tags_key_pairs: key, value = pair.split("="); tags[key] = value
RECURSIVE TagLoop(_, _, _)
TagLoop(pairs, i, tags) ==
    IF i > Len(pairs) THEN tags
    ELSE LET kv == SplitTagPair(pairs[i])
         IN IF UnpackFails(kv) THEN TagsOnValueError(tags)
            ELSE TagLoop(pairs, i + 1, DictSet(tags, kv[1], Str(kv[2])))

getTags(c) == Dict(TagLoop(Split(c, SEMI), 1, <<>>))

-----------------------------------------------------------------------------
(* Cells under test.  A cell is encoded from a source: pairs ps joined by  *)
(* the separators seps (',' between rule items, ';' between the pairs of   *)
(* one item).  A plain pair is key=v1=...=vn (n = 0: no '=' at all); an     *)
(* options pair is options=proto::o1||...||om with every option k<>v.      *)

MaxPairs == 2
MaxOpts == 2

A == <<"a">>
B == <<"b">>
D1 == <<"1">>
D2 == <<"2">>
D3 == <<"3">>
TCP == <<"t", "c", "p">>
P80 == <<"8", "0">>
P443 == <<"4", "4", "3">>
ALLOW == <<"a", "l", "l", "o", "w">>
DENY == <<"d", "e", "n", "y">>

Plain(key, vals) ==
    [key |-> key, vals |-> vals, isopt |-> FALSE, proto |-> <<>>, opts |-> <<>>]

Opt(proto, opts) ==
    [key |-> OPTIONS, vals |-> <<>>, isopt |-> TRUE, proto |-> proto, opts |-> opts]

PlainPool ==
    { Plain(A, <<D1>>), Plain(B, <<D2>>), Plain(A, <<D3>>),
      Plain(A, <<>>), Plain(A, <<D1, D2>>), Plain(<<>>, <<>>) }

OptPool == { <<P80, ALLOW>>, <<P443, DENY>>, <<P80, DENY>>, <<P80>> }

OptPairs ==
    { Opt(TCP, os) : os \in UNION { [1..n -> OptPool] : n \in 0..MaxOpts } }

PairPool == PlainPool \cup { Opt(TCP, <<<<P80, ALLOW>>, <<P443, DENY>>>>) }

Sources ==
    { [ps |-> ps, seps |-> seps] :
        ps \in UNION { [1..n -> PairPool] : n \in 1..MaxPairs },
        seps \in UNION { [1..n -> {COMMA, SEMI}] : n \in 0..(MaxPairs - 1) } }

PlainSources == { s \in Sources : Len(s.seps) = Len(s.ps) - 1 }

OptSources ==
    { [ps |-> <<o>>, seps |-> <<>>] : o \in OptPairs }
    \cup { [ps |-> <<Plain(A, <<D1>>), o>>, seps |-> <<SEMI>>] : o \in OptPairs }

OptionText(o) == Join(o, ANGLE)

PairText(p) ==
    IF p.isopt
    THEN OPTIONS \o EQ \o p.proto \o DCOLON
         \o Join([i \in 1..Len(p.opts) |-> OptionText(p.opts[i])], DBAR)
    ELSE Join(<<p.key>> \o p.vals, EQ)

RECURSIVE EncodeFrom(_, _)
EncodeFrom(s, i) ==
    IF i = Len(s.ps) THEN PairText(s.ps[i])
    ELSE PairText(s.ps[i]) \o s.seps[i] \o EncodeFrom(s, i + 1)

Encode(s) == EncodeFrom(s, 1)

NoResult == [t |-> "none", s |-> <<>>, xs |-> <<>>, b |-> FALSE]

-----------------------------------------------------------------------------
(* The parsers applied to one cell *)

NoFile == <<>>
NoBooleans == [assign_public_ip |-> "unbound", update_is_pv |-> "unbound"]
NoCells == [assign_public_ip |-> <<>>, update_is_pv |-> <<>>]

\* no run is under way
RunIdle ==
    /\ sheetnames = <<>>
    /\ nrows = <<>>
    /\ idx = 0
    /\ rowi = 0
    /\ pc = "idle"
    /\ open_file = NoFile
    /\ written = <<>>
    /\ notes = <<>>
    /\ boolean_value = "unbound"
    /\ stored = NoBooleans
    /\ last_row = NoCells
    /\ last_coerced = NoBooleans

\* no sheet is being processed
FmtIdle ==
    /\ sheet_name = <<>>
    /\ rows = <<>>
    /\ resource = <<>>
    /\ tfvars_content = <<>>
    /\ output_lines = <<>>
    /\ fpc = "idle"

InitParse ==
    /\ src \in PlainSources \cup OptSources
    /\ cell = Encode(src)
    /\ op = "none"
    /\ result = NoResult
    /\ FmtIdle
    /\ RunIdle

CallGetCidrArray ==
    /\ op = "none"
    /\ op' = "cidr"
    /\ result' = getCidrArray(cell)
    /\ UNCHANGED <<src, cell, fmtVars, runVars>>

CallGetRulesArray ==
    /\ op = "none"
    /\ op' = "rules"
    /\ result' = getRulesArray(cell)
    /\ UNCHANGED <<src, cell, fmtVars, runVars>>

CallGetTags ==
    /\ op = "none"
    /\ op' = "tags"
    /\ result' = getTags(cell)
    /\ UNCHANGED <<src, cell, fmtVars, runVars>>

NextParse == CallGetCidrArray \/ CallGetRulesArray \/ CallGetTags

SpecParse == InitParse /\ [][NextParse]_vars

-----------------------------------------------------------------------------
(* What a source says, read off its structure (no parsing involved) *)

Min(S) == CHOOSE x \in S : \A y \in S : x <= y
Max(S) == CHOOSE x \in S : \A y \in S : x >= y

\* the rule item (1-based) that pair j of source s belongs to
ItemIndex(s, j) == 1 + Cardinality({i \in 1..(j - 1) : s.seps[i] = COMMA})

NumItems(s) == ItemIndex(s, Len(s.ps))

OptionsWellFormed(p) == \A i \in 1..Len(p.opts) : Len(p.opts[i]) = 2

\* a pair getRulesArray cannot unpack
RuleBadPair(p) ==
    IF p.isopt THEN Len(p.opts) >= 2 /\ ~OptionsWellFormed(p)
    ELSE Len(p.vals) # 1

\* a pair that does not hold exactly one '='
EqBadPair(p) == ~p.isopt /\ Len(p.vals) # 1

BadRulePairs(s) == {j \in 1..Len(s.ps) : RuleBadPair(s.ps[j])}

\* the number of rule items before the first one holding a bad pair
KeptItems(s) ==
    IF BadRulePairs(s) = {} THEN NumItems(s)
    ELSE ItemIndex(s, Min(BadRulePairs(s))) - 1

AllSemi(s) == \A i \in 1..Len(s.seps) : s.seps[i] = SEMI

BadTagPairs(s) == {j \in 1..Len(s.ps) : EqBadPair(s.ps[j])}

\* the number of tag pairs before the first bad one
KeptPairs(s) ==
    IF BadTagPairs(s) = {} THEN Len(s.ps) ELSE Min(BadTagPairs(s)) - 1

PKey(p) == p.key

PVal(p) ==
    IF p.isopt
    THEN p.proto \o DCOLON
         \o Join([i \in 1..Len(p.opts) |-> OptionText(p.opts[i])], DBAR)
    ELSE Join(p.vals, EQ)

\* dict es holds exactly the pairs J of source s, a later pair of the same
\* key replacing an earlier one
HoldsPairs(es, s, J) ==
    /\ {es[i].k : i \in 1..Len(es)} = {PKey(s.ps[j]) : j \in J}
    /\ Len(es) = Cardinality({PKey(s.ps[j]) : j \in J})
    /\ \A j \in J :
          LET last == Max({h \in J : PKey(s.ps[h]) = PKey(s.ps[j])})
          IN DictGet(es, PKey(s.ps[j])) = Str(PVal(s.ps[last]))

-----------------------------------------------------------------------------
(* C1: rule-list decoding and a malformed item *)

\* C1 as stated: whenever some pair of the cell does not split on '=' into
\* exactly a key and a value, getRulesArray returns the empty list.
C1_WholeCellBlanked ==
    (op = "rules" /\ \E j \in 1..Len(src.ps) : EqBadPair(src.ps[j]))
        => result.xs = <<>>

\* C1 amended: getRulesArray returns exactly the rule objects of the items
\* that precede the first item holding a bad pair (all items when none is
\* bad), and each returned object holds the plain pairs of its item.
C1_PrefixKept ==
    op = "rules" =>
        /\ result.t = "list"
        /\ Len(result.xs) = KeptItems(src)
        /\ \A i \in 1..KeptItems(src) :
              LET J == {j \in 1..Len(src.ps) :
                          ItemIndex(src, j) = i /\ ~src.ps[j].isopt}
                  plain == SelectSeq(result.xs[i].xs, LAMBDA e : e.k # OPTIONS)
              IN result.xs[i].t = "dict" /\ HoldsPairs(plain, src, J)

\* a bad item after a good one: the good item's rule object is returned
C1_Witness ==
    /\ op = "rules"
    /\ \E j \in 1..Len(src.ps) : EqBadPair(src.ps[j])
    /\ KeptItems(src) >= 1
    /\ Len(result.xs) = KeptItems(src)

-----------------------------------------------------------------------------
(* C2: tag-map decoding and a malformed pair *)

\* C2 as stated: a tag cell of ';'-separated pairs with a malformed pair
\* decodes to the empty map.
C2_WholeMapBlanked ==
    (op = "tags" /\ AllSemi(src) /\ BadTagPairs(src) # {})
        => result.xs = <<>>

\* C2 amended: getTags returns exactly the pairs that precede the first
\* malformed pair; so the empty cell gives {} and a well-formed cell gives
\* exactly its pairs.
C2_PrefixKept ==
    (op = "tags" /\ AllSemi(src)) =>
        /\ result.t = "dict"
        /\ HoldsPairs(result.xs, src, 1..KeptPairs(src))
        /\ (cell = <<>> => result.xs = <<>>)
        /\ (BadTagPairs(src) = {} => HoldsPairs(result.xs, src, 1..Len(src.ps)))

\* a malformed pair after a good one: the good pair's entry is returned
C2_Witness ==
    /\ op = "tags"
    /\ AllSemi(src)
    /\ BadTagPairs(src) # {}
    /\ KeptPairs(src) >= 1
    /\ result.xs # <<>>

-----------------------------------------------------------------------------
(* C7: the options attribute *)

OptPairsOf(s) == {j \in 1..Len(s.ps) : s.ps[j].isopt}

\* a single rule item with exactly one options pair and no bad pair
OneOptionsItem(s) ==
    /\ NumItems(s) = 1
    /\ Cardinality(OptPairsOf(s)) = 1
    /\ BadRulePairs(s) = {}

\* option map om holds exactly the options os, a later option of the same
\* key replacing an earlier one
HoldsOptions(om, os) ==
    /\ {om[i].k : i \in 1..Len(om)} = {os[i][1] : i \in 1..Len(os)}
    /\ Len(om) = Cardinality({os[i][1] : i \in 1..Len(os)})
    /\ \A i \in 1..Len(os) :
          LET last == Max({h \in 1..Len(os) : os[h][1] = os[i][1]})
          IN DictGet(om, os[i][1]) = Str(os[last][2])

\* C7: a rule item with one attribute options=<protocol>::<payload> decodes
\* to a rule object whose 'options' value is {protocol: [optionMap]}, the
\* map holding each '||'-separated key<>value, when the payload is non-empty
\* and contains '||', and {protocol: []} otherwise.
C7_OptionsDecoded ==
    (op = "rules" /\ OneOptionsItem(src)) =>
        LET p == src.ps[CHOOSE j \in OptPairsOf(src) : TRUE]
            rule == result.xs[1].xs
            ov == DictGet(rule, OPTIONS)
        IN /\ Len(result.xs) = 1
           /\ DictHas(rule, OPTIONS)
           /\ ov.t = "dict"
           /\ Len(ov.xs) = 1
           /\ ov.xs[1].k = p.proto
           /\ ov.xs[1].v.t = "list"
           /\ IF Len(p.opts) >= 2
              THEN /\ Len(ov.xs[1].v.xs) = 1
                   /\ ov.xs[1].v.xs[1].t = "dict"
                   /\ HoldsOptions(ov.xs[1].v.xs[1].xs, p.opts)
              ELSE ov.xs[1].v.xs = <<>>

\* options=tcp::80<>allow||443<>deny gives {"tcp": [{"80": "allow", "443": "deny"}]}
C7_Witness ==
    /\ op = "rules"
    /\ src = [ps |-> <<Opt(TCP, <<<<P80, ALLOW>>, <<P443, DENY>>>>)>>, seps |-> <<>>]
    /\ result = List(<<Dict(<<Entry(OPTIONS,
                    Dict(<<Entry(TCP,
                        List(<<Dict(<<Entry(P80, Str(ALLOW)),
                                      Entry(P443, Str(DENY))>>)>>))>>))>>)>>)

-----------------------------------------------------------------------------
(* C8: a value that itself contains '=' *)

\* the first pair that cannot be unpacked is one of the shape k=v1=v2
FirstBadIsMultiEq(s, bad) ==
    bad # {} /\ ~s.ps[Min(bad)].isopt /\ Len(s.ps[Min(bad)].vals) >= 2

\* C8 as stated: a cell that is one pair k=v, v containing '=', decodes to
\* the attribute (or tag) k with the value after the first '='.
C8_FirstEqOnly ==
    (Len(src.ps) = 1 /\ ~src.ps[1].isopt /\ Len(src.ps[1].vals) >= 2) =>
        /\ op = "tags" =>
              result.xs = <<Entry(PKey(src.ps[1]), Str(PVal(src.ps[1])))>>
        /\ op = "rules" =>
              result.xs = <<Dict(<<Entry(PKey(src.ps[1]), Str(PVal(src.ps[1])))>>)>>

\* C8 amended: both grammars split a pair on every '=', so a pair whose
\* value contains '=' is malformed: getRulesArray returns only the rule
\* objects of the items before its item, getTags only the entries of the
\* pairs before it, and no decoded value contains '='.
C8_EveryEqSplits ==
    /\ (op = "rules" /\ FirstBadIsMultiEq(src, BadRulePairs(src))) =>
          /\ Len(result.xs) = ItemIndex(src, Min(BadRulePairs(src))) - 1
          /\ \A i \in 1..Len(result.xs) : \A e \in 1..Len(result.xs[i].xs) :
                ~Contains(result.xs[i].xs[e].v.s, EQ)
    /\ (op = "tags" /\ AllSemi(src) /\ FirstBadIsMultiEq(src, BadTagPairs(src))) =>
          /\ Len(result.xs) <= Min(BadTagPairs(src)) - 1
          /\ \A e \in 1..Len(result.xs) : ~Contains(result.xs[e].v.s, EQ)

\* a=1,a=1=2 : the second item is dropped, the first is kept
C8_Witness ==
    /\ op = "rules"
    /\ FirstBadIsMultiEq(src, BadRulePairs(src))
    /\ Min(BadRulePairs(src)) = 2
    /\ Len(result.xs) = 1

-----------------------------------------------------------------------------
(* C10: the empty cell *)

\* C10 as stated: both list grammars decode '' to a one-element list.
C10_EmptyCellOneElement ==
    cell = <<>> =>
        /\ op = "cidr" => Len(result.xs) = 1
        /\ op = "rules" => Len(result.xs) = 1

\* C10 amended: getCidrArray('') is the one-element list holding the quoted
\* empty string; getRulesArray('') is the empty list.
C10_EmptyCell ==
    cell = <<>> =>
        /\ op = "cidr" => result = List(<<Str(<<"\"", "\"">>)>>)
        /\ op = "rules" => result = List(<<>>)

C10_Witness == cell = <<>> /\ op = "rules" /\ result.t = "list" /\ Len(result.xs) = 0

-----------------------------------------------------------------------------
(* json.dumps(value, indent=4, separators=(",", ": ")) *)

NL == <<"\n">>
BACKSLASH == <<"\\">>
ESCAPED_QUOTE == <<"\\", "\"">>

\* the JSON escape of one character of a str (ASCII letters, digits and
\* punctuation are written as they are)
EscapeChar(c) ==
    IF c = "\"" THEN ESCAPED_QUOTE
    ELSE IF c = "\\" THEN BACKSLASH \o BACKSLASH
    ELSE IF c = "\n" THEN <<"\\", "n">>
    ELSE <<c>>

RECURSIVE EscapeFrom(_, _)
EscapeFrom(s, i) ==
    IF i > Len(s) THEN <<>> ELSE EscapeChar(s[i]) \o EscapeFrom(s, i + 1)

\* a str as a JSON string literal
JsonString(s) == QUOTE \o EscapeFrom(s, 1) \o QUOTE

IndentWidth == 4

Indent(level) == [i \in 1..(IndentWidth * level) |-> " "]

RECURSIVE Flatten(_)
Flatten(seqs) == IF Len(seqs) = 0 THEN <<>> ELSE Head(seqs) \o Flatten(Tail(seqs))

\* The lines json.dumps writes for value v nested at 'level'; 'head' is the
\* text before the value on its first line, 'tail' the item separator after
\* it on its last line.
RECURSIVE DumpLines(_, _, _, _)
DumpLines(v, level, head, tail) ==
    IF v.t = "str" THEN <<head \o JsonString(v.s) \o tail>>
    ELSE IF v.t = "bool"
    THEN <<head \o (IF v.b THEN <<"t", "r", "u", "e">> ELSE <<"f", "a", "l", "s", "e">>) \o tail>>
    ELSE IF v.t = "list"
    THEN IF Len(v.xs) = 0 THEN <<head \o <<"[", "]">> \o tail>>
         ELSE <<head \o <<"[">>>>
              \o Flatten([i \in 1..Len(v.xs) |->
                    DumpLines(v.xs[i], level + 1, Indent(level + 1),
                              IF i < Len(v.xs) THEN COMMA ELSE <<>>)])
              \o <<Indent(level) \o <<"]">> \o tail>>
    ELSE IF Len(v.xs) = 0 THEN <<head \o <<"{", "}">> \o tail>>
         ELSE <<head \o <<"{">>>>
              \o Flatten([i \in 1..Len(v.xs) |->
                    DumpLines(v.xs[i].v, level + 1,
                              Indent(level + 1) \o JsonString(v.xs[i].k) \o <<":", " ">>,
                              IF i < Len(v.xs) THEN COMMA ELSE <<>>)])
              \o <<Indent(level) \o <<"}">> \o tail>>

\* json.dumps(value, indent=4, separators=(",", ": "))
JsonDumps(v) == Join(DumpLines(v, 0, <<>>, <<>>), NL)

\* generateIntermediateFiles: the text written to the intermediate .tfvars
\* file for sheet_name and the mapping 'resource' (a dict of dicts).
RECURSIVE RecordsText(_, _)
RecordsText(mapping, i) ==
    IF i > Len(mapping) THEN <<>>
    ELSE QUOTE \o mapping[i].k \o QUOTE \o <<":", " ">> \o JsonDumps(mapping[i].v)
         \o COMMA \o NL \o RecordsText(mapping, i + 1)

TfvarsContent(name, mapping) ==
    name \o <<" ", "=", " ", "{">> \o NL \o RecordsText(mapping, 1) \o <<"}">> \o NL

-----------------------------------------------------------------------------
(* generateFinalTfvarsFile *)

\* file.readlines(): the lines of a text, each with its line terminator
ReadLines(text) ==
    LET ends == {i \in 1..Len(text) : text[i] = "\n"}
        stops == IF Len(text) > 0 /\ text[Len(text)] # "\n"
                 THEN ends \cup {Len(text)} ELSE ends
        start(p) == 1 + Max({q \in stops : q < p} \cup {0})
        nth(k) == CHOOSE p \in stops : Cardinality({q \in stops : q <= p}) = k
    IN [k \in 1..Cardinality(stops) |-> SubSeq(text, start(nth(k)), nth(k))]

\* str.replace(old, new, count)
RECURSIVE Replace(_, _, _, _)
Replace(s, old, new, count) ==
    LET i == Find(s, old)
    IN IF count = 0 \/ i = 0 THEN s
       ELSE SubSeq(s, 1, i - 1) \o new
            \o Replace(SubSeq(s, i + Len(old), Len(s)), old, new, count - 1)

\* str.rstrip(chars)
RECURSIVE RStrip(_, _)
RStrip(s, chars) ==
    IF Len(s) > 0 /\ s[Len(s)] \in chars THEN RStrip(SubSeq(s, 1, Len(s) - 1), chars)
    ELSE s

\* the first two occurrences of the escaped quote, else of the bare quote,
\* are removed
StripQuotes(line) ==
    IF Contains(line, ESCAPED_QUOTE) THEN Replace(line, ESCAPED_QUOTE, <<>>, 2)
    ELSE Replace(line, QUOTE, <<>>, 2)

\* every line loses its trailing comma
KeepsCommaNever(new_line) == FALSE

\* if '},' not in new_line: the trailing comma goes; otherwise it stays
KeepsComma(new_line) == Contains(new_line, <<"}", ",">>)

\* one line of the intermediate file rewritten for the final file
RewriteLine(line) ==
    LET new_line == Replace(StripQuotes(line), <<":">>, <<" ", "=">>, 1)
    IN IF KeepsComma(new_line) THEN new_line
       ELSE RStrip(new_line, {",", "\n"}) \o NL

\* generateFinalTfvarsFile: the lines written to the final file
FinalLines(text) ==
    LET lines == ReadLines(text)
    IN [i \in 1..Len(lines) |-> RewriteLine(lines[i])]

-----------------------------------------------------------------------------
(* The row assemblers.  A sheet is read through csv.DictReader: every row  *)
(* maps the header's column names, in the header's order, to cells.  Each  *)
(* assembler is its chain of 'elif header == ...' branches, written as a   *)
(* table of (column, what the branch does with the cell):                  *)
(*   "key"    resource[row[key]] = {}                                      *)
(*   "pass"   resource[row[key]][column] = cell                            *)
(*   "lower"  resource[row[key]][column] = cell.lower()                    *)
(*   "split"  resource[row[key]][column] = cell.split(',')                 *)
(*   "cidr", "rules", "tags"  a local takes the parser's result and is     *)
(*            stored under the column's name after the header loop         *)
(* The sheets modelled carry the columns in the order of the chain.        *)

Col(name, kind) == [name |-> name, kind |-> kind]

\* processVcns
VcnColumns ==
    << Col(<<"v", "c", "n", "_", "n", "a", "m", "e">>, "key"), Col(<<"c", "o", "m", "p", "a", "r", "t", "m", "e", "n", "t", "_", "i", "d">>, "pass"),
       Col(<<"d", "i", "s", "p", "l", "a", "y", "_", "n", "a", "m", "e">>, "pass"), Col(<<"d", "n", "s", "_", "l", "a", "b", "e", "l">>, "pass"),
       Col(<<"c", "i", "d", "r", "_", "b", "l", "o", "c", "k", "s">>, "cidr") >>

\* processSubnets
SubnetColumns ==
    << Col(<<"s", "u", "b", "n", "e", "t", "_", "n", "a", "m", "e">>, "key"), Col(<<"a", "v", "a", "i", "l", "a", "b", "i", "l", "i", "t", "y", "_", "d", "o", "m", "a", "i", "n">>, "pass"),
       Col(<<"c", "i", "d", "r", "_", "b", "l", "o", "c", "k">>, "pass"), Col(<<"c", "o", "m", "p", "a", "r", "t", "m", "e", "n", "t", "_", "i", "d">>, "pass"),
       Col(<<"v", "c", "n", "_", "i", "d">>, "pass"), Col(<<"d", "i", "s", "p", "l", "a", "y", "_", "n", "a", "m", "e">>, "pass"),
       Col(<<"p", "r", "o", "h", "i", "b", "i", "t", "_", "p", "u", "b", "l", "i", "c", "_", "i", "p", "_", "o", "n", "_", "v", "n", "i", "c">>, "lower"),
       Col(<<"r", "o", "u", "t", "e", "_", "t", "a", "b", "l", "e", "_", "i", "d">>, "pass"), Col(<<"d", "n", "s", "_", "l", "a", "b", "e", "l">>, "pass"),
       Col(<<"d", "h", "c", "p", "_", "o", "p", "t", "i", "o", "n", "s", "_", "i", "d">>, "pass"), Col(<<"s", "e", "c", "u", "r", "i", "t", "y", "_", "l", "i", "s", "t", "_", "i", "d", "s">>, "split"),
       Col(<<"f", "r", "e", "e", "f", "o", "r", "m", "_", "t", "a", "g", "s">>, "tags"), Col(<<"d", "e", "f", "i", "n", "e", "d", "_", "t", "a", "g", "s">>, "tags") >>

\* processSecLists
SecListColumns ==
    << Col(<<"s", "e", "c", "l", "i", "s", "t", "_", "n", "a", "m", "e">>, "key"), Col(<<"c", "o", "m", "p", "a", "r", "t", "m", "e", "n", "t", "_", "i", "d">>, "pass"),
       Col(<<"v", "c", "n", "_", "i", "d">>, "pass"), Col(<<"d", "i", "s", "p", "l", "a", "y", "_", "n", "a", "m", "e">>, "pass"),
       Col(<<"i", "n", "g", "r", "e", "s", "s", "_", "s", "e", "c", "_", "r", "u", "l", "e", "s">>, "rules"), Col(<<"e", "g", "r", "e", "s", "s", "_", "s", "e", "c", "_", "r", "u", "l", "e", "s">>, "rules"),
       Col(<<"f", "r", "e", "e", "f", "o", "r", "m", "_", "t", "a", "g", "s">>, "tags"), Col(<<"d", "e", "f", "i", "n", "e", "d", "_", "t", "a", "g", "s">>, "tags") >>

VCNS == <<"v", "c", "n", "s">>
SUBNETS == <<"s", "u", "b", "n", "e", "t", "s">>
SECLISTS == <<"s", "e", "c", "l", "i", "s", "t", "s">>

\* sheet_function_mapping, for the three assemblers above
ColumnsOf(name) ==
    IF name = VCNS THEN VcnColumns
    ELSE IF name = SUBNETS THEN SubnetColumns
    ELSE SecListColumns

UpperCase == <<"A", "B", "C", "D", "E", "F", "G", "H", "I", "J", "K", "L", "M", "N", "O", "P", "Q", "R", "S", "T", "U", "V", "W", "X", "Y", "Z">>
LowerCase == <<"a", "b", "c", "d", "e", "f", "g", "h", "i", "j", "k", "l", "m", "n", "o", "p", "q", "r", "s", "t", "u", "v", "w", "x", "y", "z">>

\* str.lower() on ASCII text
Lower(s) ==
    [i \in 1..Len(s) |->
        IF \E u \in 1..26 : UpperCase[u] = s[i]
        THEN LowerCase[CHOOSE u \in 1..26 : UpperCase[u] = s[i]]
        ELSE s[i]]

\* cell.split(',') kept as a list of str
SplitIds(c) ==
    LET ids == Split(c, COMMA) IN List([i \in 1..Len(ids) |-> Str(ids[i])])

Deferred(kind) == kind \in {"cidr", "rules", "tags"}

\* what a branch computes from its cell
CellValue(kind, c) ==
    IF kind = "pass" THEN Str(c)
    ELSE IF kind = "lower" THEN Str(Lower(c))
    ELSE IF kind = "split" THEN SplitIds(c)
    ELSE IF kind = "cidr" THEN getCidrArray(c)
    ELSE IF kind = "rules" THEN getRulesArray(c)
    ELSE getTags(c)

\* the fields stored inside the header loop (later = FALSE) or after it
\* (later = TRUE), from column i on
RECURSIVE StoreFields(_, _, _, _, _)
StoreFields(columns, row, i, later, record) ==
    IF i > Len(columns) THEN record
    ELSE IF columns[i].kind # "key" /\ Deferred(columns[i].kind) = later
    THEN StoreFields(columns, row, i + 1, later,
            DictSet(record, columns[i].name, CellValue(columns[i].kind, row[i])))
    ELSE StoreFields(columns, row, i + 1, later, record)

KeyColumn(columns) == CHOOSE i \in 1..Len(columns) : columns[i].kind = "key"

\* one iteration of 'for row in reader': the record of the row's key is
\* started afresh and filled
ScanRow(columns, row, mapping) ==
    LET inside == StoreFields(columns, row, 1, FALSE, <<>>)
        record == StoreFields(columns, row, 1, TRUE, inside)
    IN DictSet(mapping, row[KeyColumn(columns)], Dict(record))

RECURSIVE ScanRows(_, _, _, _)
ScanRows(columns, data_rows, i, mapping) ==
    IF i > Len(data_rows) THEN mapping
    ELSE ScanRows(columns, data_rows, i + 1, ScanRow(columns, data_rows[i], mapping))

-----------------------------------------------------------------------------
(* One sheet end to end: the assembler's row loop, then                    *)
(* generateIntermediateFiles, then generateFinalTfvarsFile.                *)

MaxRows == 2

K1 == <<"r", "1">>
K2 == <<"r", "2">>
Keys == {K1, K2}
OCID == <<"o">>
WEB == <<"w", "e", "b">>
QUOTED_NAME == <<"a", "\"", "b">>
DisplayNames == {WEB, QUOTED_NAME}
CIDR1 == <<"1", "/", "8">>
CIDR2 == <<"2", "/", "8">>
CidrCells == {CIDR1, CIDR1 \o COMMA \o CIDR2}
IdCells == {<<"s", "1">>, <<"s", "1", ",", "s", "2">>}
RuleCells == {<<"a", "=", "1">>, <<"a", "=", "1", ",", "b", "=", "2">>, <<"o", "p", "t", "i", "o", "n", "s", "=", "t", "c", "p", ":", ":", "8", "0", "<", ">", "a", "l", "l", "o", "w", "|", "|", "4", "4", "3", "<", ">", "d", "e", "n", "y", ",", "a", "=", "1">>}

VcnRows ==
    { <<k, OCID, d, <<"d", "n", "s">>, c>> : k \in Keys, d \in DisplayNames, c \in CidrCells }

SubnetRows ==
    { <<k, <<"A", "D", "1">>, CIDR1, OCID, OCID, d, <<"T", "R", "U", "E">>, OCID, <<"d", "n", "s">>, OCID, ids,
        <<"a", "=", "1", ";", "b", "=", "2">>, <<>>>> : k \in Keys, d \in DisplayNames, ids \in IdCells }

SecListRows ==
    { <<k, OCID, OCID, d, r, <<>>, <<"a", "=", "1">>, <<>>>> :
        k \in Keys, d \in DisplayNames, r \in RuleCells }

RowsOf(name) ==
    IF name = VCNS THEN VcnRows
    ELSE IF name = SUBNETS THEN SubnetRows
    ELSE SecListRows

ParseIdle ==
    /\ src = [ps |-> <<>>, seps |-> <<>>]
    /\ cell = <<>>
    /\ op = "idle"
    /\ result = NoResult

InitFmt ==
    /\ ParseIdle
    /\ RunIdle
    /\ sheet_name \in {VCNS, SUBNETS, SECLISTS}
    /\ rows \in UNION { [1..n -> RowsOf(sheet_name)] : n \in 0..MaxRows }
    /\ resource = <<>>
    /\ tfvars_content = <<>>
    /\ output_lines = <<>>
    /\ fpc = "start"

\* for row in reader: ... (the whole loop)
ScanSheet ==
    /\ fpc = "start"
    /\ resource' = ScanRows(ColumnsOf(sheet_name), rows, 1, <<>>)
    /\ fpc' = "scanned"
    /\ UNCHANGED <<parseVars, runVars, sheet_name, rows, tfvars_content, output_lines>>

GenerateIntermediateFiles ==
    /\ fpc = "scanned"
    /\ tfvars_content' = TfvarsContent(sheet_name, resource)
    /\ fpc' = "intermediate"
    /\ UNCHANGED <<parseVars, runVars, sheet_name, rows, resource, output_lines>>

GenerateFinalTfvarsFile ==
    /\ fpc = "intermediate"
    /\ output_lines' = FinalLines(tfvars_content)
    /\ fpc' = "final"
    /\ UNCHANGED <<parseVars, runVars, sheet_name, rows, resource, tfvars_content>>

NextFmt == ScanSheet \/ GenerateIntermediateFiles \/ GenerateFinalTfvarsFile

SpecFmt == InitFmt /\ [][NextFmt]_vars

-----------------------------------------------------------------------------
(* C4: the final file of a sheet with two resource keys *)

RowKeys == {rows[i][KeyColumn(ColumnsOf(sheet_name))] : i \in 1..Len(rows)}

\* the lines of the final file that start in column 0
TopLines == SelectSeq(output_lines, LAMBDA l : l[1] # " ")

\* the key of the first row, then the other key
FirstKey == rows[1][KeyColumn(ColumnsOf(sheet_name))]
OtherKey == CHOOSE k \in RowKeys : k # FirstKey

\* C4 as stated: two resource keys give a block of exactly two entries, and
\* the closing line of each entry's object has lost its trailing comma.
C4_ClosingCommaRemoved ==
    (fpc = "final" /\ Cardinality(RowKeys) = 2) =>
        TopLines = << sheet_name \o <<" ", "=", " ", "{", "\n">>,
                      FirstKey \o <<" ", "=", " ", "{", "\n">>, <<"}", "\n">>,
                      OtherKey \o <<" ", "=", " ", "{", "\n">>, <<"}", "\n">>,
                      <<"}", "\n">> >>

\* C4 amended: two resource keys give a block of exactly two entries, in
\* the order the keys first appear, and the closing line of each entry's
\* object is '},' : it keeps the comma the intermediate serializer wrote.
C4_TwoEntriesCommaKept ==
    (fpc = "final" /\ Cardinality(RowKeys) = 2) =>
        TopLines = << sheet_name \o <<" ", "=", " ", "{", "\n">>,
                      FirstKey \o <<" ", "=", " ", "{", "\n">>, <<"}", ",", "\n">>,
                      OtherKey \o <<" ", "=", " ", "{", "\n">>, <<"}", ",", "\n">>,
                      <<"}", "\n">> >>

C4_Witness ==
    /\ fpc = "final"
    /\ Cardinality(RowKeys) = 2
    /\ Len(SelectSeq(output_lines, LAMBDA l : l = <<"}", ",", "\n">>)) = 2

-----------------------------------------------------------------------------
(* C5: the rewrite of a "key": "value", line *)

IntermediateLines == ReadLines(tfvars_content)

\* the fields of every record of the mapping whose value is a str
StringFields ==
    UNION { { resource[i].v.xs[j] : j \in {h \in 1..Len(resource[i].v.xs) :
                                            resource[i].v.xs[h].v.t = "str"} } :
            i \in 1..Len(resource) }

EndsWith(s, suffix) ==
    Len(s) >= Len(suffix) /\ SubSeq(s, Len(s) - Len(suffix) + 1, Len(s)) = suffix

\* C5: an intermediate line "key": "value", that does not contain '},' is
\* written to the final file as key = "value" (the key's quotes gone, the
\* first ':' now ' =', the value's quotes untouched, no trailing comma), and
\* a line ending in '},' keeps its comma.
C5_LineRule ==
    fpc = "final" =>
        \A i \in 1..Len(output_lines) :
            /\ \A f \in StringFields :
                  LET line == Indent(1) \o JsonString(f.k) \o <<":", " ">>
                              \o JsonString(f.v.s) \o <<",", "\n">>
                  IN (IntermediateLines[i] = line /\ ~Contains(line, <<"}", ",">>))
                        => output_lines[i] = Indent(1) \o f.k \o <<" ", "=", " ">>
                                             \o JsonString(f.v.s) \o NL
            /\ EndsWith(IntermediateLines[i], <<"}", ",", "\n">>)
                  => EndsWith(output_lines[i], <<"}", ",", "\n">>)

-----------------------------------------------------------------------------
(* C6: the commas between the items of a list *)

\* For every line json.dumps writes for value v: TRUE when the line ends
\* with the separator between two consecutive items of a list.  'more'
\* says that v itself is a list item with another item after it.
RECURSIVE SeparatorLines(_, _)
SeparatorLines(v, more) ==
    IF v.t \in {"str", "bool"} \/ Len(v.xs) = 0 THEN <<more>>
    ELSE IF v.t = "list"
    THEN <<FALSE>>
         \o Flatten([i \in 1..Len(v.xs) |-> SeparatorLines(v.xs[i], i < Len(v.xs))])
         \o <<more>>
    ELSE <<FALSE>>
         \o Flatten([i \in 1..Len(v.xs) |-> SeparatorLines(v.xs[i].v, FALSE)])
         \o <<more>>

\* the same for every line of the file written for the mapping
FileSeparatorLines ==
    <<FALSE>>
    \o Flatten([i \in 1..Len(resource) |-> SeparatorLines(resource[i].v, FALSE)])
    \o <<FALSE>>

\* C6: in the final file the comma between two consecutive items of a
\* list-valued field is still there, whatever the items are.
C6_ListCommasKept ==
    fpc = "final" =>
        /\ Len(FileSeparatorLines) = Len(output_lines)
        /\ \A i \in 1..Len(output_lines) :
              FileSeparatorLines[i] => EndsWith(output_lines[i], <<",", "\n">>)

-----------------------------------------------------------------------------
(* The run: 'for sheet_name in workbook.sheetnames', the assembler it      *)
(* dispatches to, and the files that assembler writes.  The five           *)
(* assemblers other than processInstances scan every row and then call     *)
(* generateIntermediateFiles and generateFinalTfvarsFile once;             *)
(* processInstances calls both inside its row loop.                        *)

MaxSheets == 3
MaxDataRows == 2

ROUTE_TABLES == <<"r", "o", "u", "t", "e", "_", "t", "a", "b", "l", "e", "s">>
DRG_ATTACHMENTS == <<"d", "r", "g", "_", "a", "t", "t", "a", "c", "h", "m", "e", "n", "t", "s">>
INSTANCES == <<"i", "n", "s", "t", "a", "n", "c", "e", "s">>
NOTES == <<"n", "o", "t", "e", "s">>

\* the keys of sheet_function_mapping
Registered == {ROUTE_TABLES, VCNS, DRG_ATTACHMENTS, SECLISTS, SUBNETS, INSTANCES}

SheetPool == {ROUTE_TABLES, INSTANCES, NOTES}

\* a workbook's sheet names are distinct
Workbooks ==
    { w \in UNION { [1..n -> SheetPool] : n \in 0..MaxSheets } :
        \A i, j \in 1..Len(w) : i # j => w[i] # w[j] }

TRUE_CELLS == {<<"t", "r", "u", "e">>, <<"T", "R", "U", "E">>}
FALSE_CELLS == {<<"F", "a", "l", "s", "e">>}
OTHER_CELLS == {<<"y", "e", "s">>}
BoolCells == TRUE_CELLS \cup FALSE_CELLS \cup OTHER_CELLS
IntCells == {<<"2">>, <<"x">>}

Digits == {"0", "1", "2", "3", "4", "5", "6", "7", "8", "9"}

\* int(cell) raises ValueError (decimal digits only are modelled)
IntFails(c) == Len(c) = 0 \/ \E i \in 1..Len(c) : c[i] \notin Digits

\* if cell.lower() == "true": boolean_value = True
\* elif cell.lower().lower() == "false": boolean_value = False
\* (any other cell leaves boolean_value as it was)
Coerce(c, value) ==
    IF Lower(c) = <<"t", "r", "u", "e">> THEN "True"
    ELSE IF Lower(Lower(c)) = <<"f", "a", "l", "s", "e">> THEN "False"
    ELSE value

\* generateFileNames
JsonFile(name) == <<<<"i", "n", "t", "e", "r", "m", "e", "d", "i", "a", "t", "e">>, name, <<".", "j", "s", "o", "n">>>>
TfvarsFile(name) == <<<<"i", "n", "t", "e", "r", "m", "e", "d", "i", "a", "t", "e">>, name, <<".", "t", "f", "v", "a", "r", "s">>>>
FinalFile(name) == <<<<"o", "u", "t", "p", "u", "t">>, <<"f", "i", "n", "a", "l", "-">> \o name, <<".", "t", "f", "v", "a", "r", "s">>>>

InitRun ==
    /\ ParseIdle
    /\ FmtIdle
    /\ sheetnames \in Workbooks
    /\ nrows \in [1..Len(sheetnames) -> 0..MaxDataRows]
    /\ idx = 1
    /\ rowi = 0
    /\ pc = "next_sheet"
    /\ open_file = NoFile
    /\ written = <<>>
    /\ notes = <<>>
    /\ boolean_value = "unbound"
    /\ stored = NoBooleans
    /\ last_row = NoCells
    /\ last_coerced = NoBooleans

Current == sheetnames[idx]

\* if sheet_name in sheet_function_mapping: sheet_function(sheet_name, sheet)
\* The assembler starts with fresh locals.
Dispatch ==
    /\ pc = "next_sheet"
    /\ idx <= Len(sheetnames)
    /\ Current \in Registered
    /\ pc' = "rows"
    /\ rowi' = 0
    /\ boolean_value' = "unbound"
    /\ stored' = NoBooleans
    /\ last_row' = NoCells
    /\ last_coerced' = NoBooleans
    /\ UNCHANGED <<parseVars, fmtVars, sheetnames, nrows, idx, open_file, written, notes>>

\* else: print(f"No function found for sheet: {sheet_name}")
NoFunctionFound ==
    /\ pc = "next_sheet"
    /\ idx <= Len(sheetnames)
    /\ Current \notin Registered
    /\ notes' = Append(notes, Current)
    /\ idx' = idx + 1
    /\ UNCHANGED <<parseVars, fmtVars, sheetnames, nrows, rowi, pc, open_file, written,
                   boolean_value, stored, last_row, last_coerced>>

\* workbook.close()
CloseWorkbook ==
    /\ pc = "next_sheet"
    /\ idx > Len(sheetnames)
    /\ pc' = "done"
    /\ UNCHANGED <<parseVars, fmtVars, sheetnames, nrows, idx, rowi, open_file, written,
                   notes, boolean_value, stored, last_row, last_coerced>>

\* one 'for row in reader' iteration of an assembler other than
\* processInstances
ScanDataRow ==
    /\ pc = "rows"
    /\ Current # INSTANCES
    /\ rowi < nrows[idx]
    /\ rowi' = rowi + 1
    /\ UNCHANGED <<parseVars, fmtVars, sheetnames, nrows, idx, pc, open_file, written,
                   notes, boolean_value, stored, last_row, last_coerced>>

\* one 'for row in reader' iteration of processInstances, up to the call of
\* generateIntermediateFiles inside the loop.  int() of a malformed cell
\* raises ValueError, storing the unbound boolean_value raises
\* UnboundLocalError: either ends the process.
ScanInstanceRow ==
    /\ pc = "rows"
    /\ Current = INSTANCES
    /\ rowi < nrows[idx]
    /\ \E n \in IntCells, a \in BoolCells, u \in BoolCells :
          LET first == Coerce(a, boolean_value)
              second == Coerce(u, first)
          IN IF IntFails(n) \/ first = "unbound"
             THEN /\ pc' = "crashed"
                  /\ UNCHANGED <<rowi, boolean_value, stored, last_row, last_coerced>>
             ELSE /\ pc' = "json_open"
                  /\ rowi' = rowi + 1
                  /\ boolean_value' = second
                  /\ stored' = [assign_public_ip |-> first, update_is_pv |-> second]
                  /\ last_row' = [assign_public_ip |-> a, update_is_pv |-> u]
                  /\ last_coerced' =
                        [assign_public_ip |->
                            IF a \in TRUE_CELLS THEN "True"
                            ELSE IF a \in FALSE_CELLS THEN "False"
                            ELSE last_coerced.assign_public_ip,
                         update_is_pv |->
                            IF u \in TRUE_CELLS THEN "True"
                            ELSE IF u \in FALSE_CELLS THEN "False"
                            ELSE last_coerced.update_is_pv]
    /\ UNCHANGED <<parseVars, fmtVars, sheetnames, nrows, idx, open_file, written, notes>>

\* the row loop is exhausted: processInstances returns, the other
\* assemblers go on to write their files
RowsExhausted ==
    /\ pc = "rows"
    /\ rowi = nrows[idx]
    /\ IF Current = INSTANCES
       THEN pc' = "next_sheet" /\ idx' = idx + 1
       ELSE pc' = "json_open" /\ idx' = idx
    /\ UNCHANGED <<parseVars, fmtVars, sheetnames, nrows, rowi, open_file, written, notes,
                   boolean_value, stored, last_row, last_coerced>>

\* a with open(...) block is entered
OpenStep(at, file, then) ==
    /\ pc = at
    /\ open_file = NoFile
    /\ open_file' = file
    /\ pc' = then
    /\ UNCHANGED <<parseVars, fmtVars, sheetnames, nrows, idx, rowi, written, notes,
                   boolean_value, stored, last_row, last_coerced>>

\* generateIntermediateFiles: with open(json_file, 'w') as jsonfile
OpenJson == OpenStep("json_open", JsonFile(Current), "json_dump")

\* json.dump(resource, jsonfile, indent=4), and the block is left
DumpJson ==
    /\ pc = "json_dump"
    /\ written' = Append(written, open_file)
    /\ open_file' = NoFile
    /\ pc' = "tfvars_open"
    /\ UNCHANGED <<parseVars, fmtVars, sheetnames, nrows, idx, rowi, notes,
                   boolean_value, stored, last_row, last_coerced>>

\* with open(intermediate_tfvars_file, "w") as tfvars_file
OpenTfvars == OpenStep("tfvars_open", TfvarsFile(Current), "tfvars_write")

\* tfvars_file.write(tfvars_content), and the block is left
WriteTfvars ==
    /\ pc = "tfvars_write"
    /\ written' = Append(written, open_file)
    /\ open_file' = NoFile
    /\ pc' = "reread_open"
    /\ UNCHANGED <<parseVars, fmtVars, sheetnames, nrows, idx, rowi, notes,
                   boolean_value, stored, last_row, last_coerced>>

\* generateFinalTfvarsFile: with open(intermediate_tfvars_file, "r")
OpenIntermediate == OpenStep("reread_open", TfvarsFile(Current), "reread")

\* lines = input_file.readlines(), and the block is left
ReadIntermediate ==
    /\ pc = "reread"
    /\ open_file' = NoFile
    /\ pc' = "final_open"
    /\ UNCHANGED <<parseVars, fmtVars, sheetnames, nrows, idx, rowi, written, notes,
                   boolean_value, stored, last_row, last_coerced>>

\* with open(final_tfvars_file, "w") as output_file
OpenFinal == OpenStep("final_open", FinalFile(Current), "final_write")

\* output_file.writelines(output_lines), and the block is left; control
\* returns to the row loop of processInstances, or to the orchestrator
WriteFinal ==
    /\ pc = "final_write"
    /\ written' = Append(written, open_file)
    /\ open_file' = NoFile
    /\ IF Current = INSTANCES
       THEN pc' = "rows" /\ idx' = idx
       ELSE pc' = "next_sheet" /\ idx' = idx + 1
    /\ UNCHANGED <<parseVars, fmtVars, sheetnames, nrows, rowi, notes,
                   boolean_value, stored, last_row, last_coerced>>

NextRun ==
    \/ Dispatch
    \/ NoFunctionFound
    \/ CloseWorkbook
    \/ ScanDataRow
    \/ ScanInstanceRow
    \/ RowsExhausted
    \/ OpenJson
    \/ DumpJson
    \/ OpenTfvars
    \/ WriteTfvars
    \/ OpenIntermediate
    \/ ReadIntermediate
    \/ OpenFinal
    \/ WriteFinal

SpecRun == InitRun /\ [][NextRun]_vars

-----------------------------------------------------------------------------
(* C3: boolean coercion in processInstances *)

BooleanFields == {"assign_public_ip", "update_is_pv"}

\* a row of the instances sheet has just been stored
InstanceRowStored == pc = "json_open" /\ Current = INSTANCES

\* C3: 'true' in any letter case is stored as true, 'false' as false, and
\* any other literal stores what was last coerced for that same field,
\* whatever the other boolean field coerced to in between.
C3_PerFieldCarryOver ==
    InstanceRowStored =>
        \A f \in BooleanFields :
            /\ last_row[f] \in TRUE_CELLS => stored[f] = "True"
            /\ last_row[f] \in FALSE_CELLS => stored[f] = "False"
            /\ (last_row[f] \in OTHER_CELLS /\ last_coerced[f] # "unbound")
                  => stored[f] = last_coerced[f]

-----------------------------------------------------------------------------
(* C9: the order of the run *)

FilesOf(name) == {JsonFile(name), TfvarsFile(name), FinalFile(name)}

Written == {written[k] : k \in 1..Len(written)}

\* the position in the workbook of the sheet a file belongs to
SheetOfFile(file) == CHOOSE i \in 1..Len(sheetnames) : file \in FilesOf(sheetnames[i])

\* some artifact of sheet j has been opened
Begun(j) ==
    \/ open_file \in FilesOf(sheetnames[j])
    \/ Written \cap FilesOf(sheetnames[j]) # {}

\* sheets are handled one at a time, in the workbook's order
C9_InWorkbookOrder ==
    /\ open_file # NoFile => SheetOfFile(open_file) = idx
    /\ \A k \in 1..Len(written) : SheetOfFile(written[k]) <= idx
    /\ \A k \in 2..Len(written) :
          SheetOfFile(written[k - 1]) <= SheetOfFile(written[k])

\* a sheet without an assembler gets no artifact, only a note
C9_UnregisteredSkipped ==
    \A i \in 1..Len(sheetnames) :
        sheetnames[i] \notin Registered =>
            /\ ~Begun(i)
            /\ (idx > i /\ pc # "crashed") => \E k \in 1..Len(notes) : notes[k] = sheetnames[i]

\* the JSON document, then the intermediate block, then the final file
C9_JsonTfvarsFinal ==
    \A k \in 1..Len(written) :
        LET name == sheetnames[SheetOfFile(written[k])]
        IN /\ written[k] = TfvarsFile(name) => (k > 1 /\ written[k - 1] = JsonFile(name))
           /\ written[k] = FinalFile(name) => (k > 1 /\ written[k - 1] = TfvarsFile(name))

\* when an artifact of a later sheet is opened, every earlier sheet that
\* has an assembler has its three files written and closed
C9_EarlierSheetsComplete ==
    \A i, j \in 1..Len(sheetnames) :
        (i < j /\ Begun(j) /\ sheetnames[i] \in Registered) =>
            /\ FilesOf(sheetnames[i]) \subseteq Written
            /\ open_file \notin FilesOf(sheetnames[i])

\* C9: sheets are handled one at a time in the workbook's order; a sheet
\* with no registered assembler produces no artifact and does not stop the
\* run; a recognized sheet's JSON document, intermediate block and final
\* file are written in that order, and all three are written and closed
\* before any artifact of a later sheet is opened.
C9_RunOrder ==
    /\ C9_InWorkbookOrder
    /\ C9_UnregisteredSkipped
    /\ C9_JsonTfvarsFinal
    /\ C9_EarlierSheetsComplete


-----------------------------------------------------------------------------
(* C11: the lifecycle of a sheet's record mapping *)

\* control is inside generateIntermediateFiles or generateFinalTfvarsFile
Serializing ==
    pc \in {"json_open", "json_dump", "tfvars_open", "tfvars_write",
            "reread_open", "reread", "final_open", "final_write"}

\* how many times a file has been written
TimesWritten(file) == Cardinality({k \in 1..Len(written) : written[k] = file})

\* the assembler of sheet i has returned
Returned(i) == idx > i

\* the mapping of sheet i has been handed to generateIntermediateFiles
HandedOver(i) ==
    \/ TimesWritten(JsonFile(sheetnames[i])) >= 1
    \/ idx = i /\ Serializing

\* the mapping is serialized only when no row of the sheet is left
C11_AfterLastRow == Serializing => rowi = nrows[idx]

\* one serialization per recognized sheet, whatever its number of rows
C11_ExactlyOnce ==
    \A i \in 1..Len(sheetnames) :
        sheetnames[i] \in Registered =>
            /\ \A f \in FilesOf(sheetnames[i]) : TimesWritten(f) <= 1
            /\ Returned(i) => \A f \in FilesOf(sheetnames[i]) : TimesWritten(f) = 1

\* once the mapping is handed over, no row is scanned into it any more
C11_FrozenAfterHandOver ==
    \A i \in 1..Len(sheetnames) :
        (idx = i /\ HandedOver(i)) => rowi = nrows[i]

\* C11: for every row assembler, processInstances included, the record
\* mapping of a sheet is serialized only after the sheet's last row has
\* been scanned, exactly once per recognized sheet (a sheet with no data
\* rows too), and no record is added after the mapping has been handed to
\* generateIntermediateFiles.
C11_RecordLifecycle ==
    /\ C11_AfterLastRow
    /\ C11_ExactlyOnce
    /\ C11_FrozenAfterHandOver


-----------------------------------------------------------------------------
(* C12: the shape of a returned rule object's options attribute *)

\* the 'options' values of the rule objects getRulesArray returned
ReturnedOptions ==
    { DictGet(result.xs[i].xs, OPTIONS) :
        i \in {h \in 1..Len(result.xs) : DictHas(result.xs[h].xs, OPTIONS)} }

\* the value is a mapping with exactly one protocol key, which maps to a list
C12_OneProtocolKey ==
    op = "rules" =>
        \A ov \in ReturnedOptions :
            /\ ov.t = "dict"
            /\ Len(ov.xs) = 1
            /\ ov.xs[1].v.t = "list"

\* the list under the protocol key holds at most one option map
C12_AtMostOneOptionMap ==
    op = "rules" =>
        \A ov \in ReturnedOptions :
            \A e \in 1..Len(ov.xs) : Len(ov.xs[e].v.xs) <= 1

\* C12: for any cell, a rule item that carries 'options' more than once
\* included, every rule object getRulesArray returns that has an 'options'
\* attribute has as its value a mapping with exactly one protocol key, and
\* that key maps to a list containing at most one option map.
C12_OptionsShape ==
    /\ C12_OneProtocolKey
    /\ C12_AtMostOneOptionMap

=============================================================================
